---------------------------- MODULE Spec2Model ----------------------------
(***************************************************************************)
(* The vector store lifecycle of the knowledge-base assistant:             *)
(*   - DocumentLoaderService (src/src/loaders/document_loader.py): the     *)
(*     documents directory, the processed-documents ledger, _process_file; *)
(*   - FAISSVectorStore (src/src/vectorstores/faiss_store.py): insert,     *)
(*     delete, delete_by_source, clear, search and the on-disk snapshot;   *)
(*   - FAISSConversationalRAGChain.add_documents                           *)
(*     (src/src/chains/faiss_conversational_chain.py): the upload path.    *)
(*                                                                         *)
(* A call is a sequence of steps, one per access to shared state (the      *)
(* ledger file, the documents directory, the FAISS object, the snapshot    *)
(* directory).  Each session of the web application owns one chain and     *)
(* runs one call at a time.                                                *)
(*                                                                         *)
(* Two specifications share the state:                                     *)
(*   Spec        the store's own interface (insert, delete,                *)
(*               delete_by_source, clear, search) and restarts;            *)
(*   SpecIngest  uploads through a chain, with delete_by_source, clear,    *)
(*               search and restarts.                                      *)
(*                                                                         *)
(* Strings that the code inspects (source paths, chunk ids) are sequences  *)
(* of one-character strings, so that str.startswith and the f-string       *)
(* "{source}_{uuid}" are computed and not assumed.                         *)
(***************************************************************************)
EXTENDS Naturals, Sequences, FiniteSets, TLC

VARIABLES
    files,      \* Config.DOCUMENTS_DIR: path -> content of the stored file
    ledger,     \* PROCESSED_DOCS_RECORD: the complete lines of the ledger file
    torn,       \* PROCESSED_DOCS_RECORD: what follows its last line break
    stores,     \* the FAISS objects still referenced; the last one is
                \* FAISSVectorStore.vector_store
    disk,       \* FAISS_INDEX_PATH: the snapshot written by save_local
    uuids,      \* how many uuid4 values have been drawn
    pc,         \* per session: the position inside the running call
    frame,      \* per session: arguments, locals and result of its call
    chains,     \* per session: its FAISSConversationalRAGChain, if built
    faults,     \* how many calls into the engine have raised
    pre,        \* history: the shared state when the latest call began, or
                \* when the process last ended
    cleared,    \* history: the latest clear() and the ids it dropped
    persisted   \* history: the sources whose chunks a save has written

vars == <<files, ledger, torn, stores, disk, uuids, pc, frame, chains, faults,
          pre, cleared, persisted>>

----------------------------------------------------------------------------
(* Bounds of the model *)

MaxUuid == 4        \* uuid4 values that may be drawn
MaxVectors == 3     \* vectors a FAISS object may hold
MaxFaults == 1      \* calls into the engine that may raise
MaxLedger == 2      \* complete lines the ledger file may hold
MaxText == 4        \* characters of a page handed to the splitter
MaxSaid == 8        \* messages a session may append to its history
MaxTorn == 2        \* tokens that may follow the last line break of the ledger

(* Program constants *)

DefaultBatchSize == 10   \* add_documents(..., batch_size: int = 10, ...)
TopK == 2                \* Config.TOP_K, a configured value

Sessions == {1, 2}

----------------------------------------------------------------------------
(* Strings *)

\* A path is a sequence of tokens; a token that begins with a dot is a
\* file extension.  The names are in lower case.
PathA  == <<"a", ".txt">>                    \* a source path p
PathAB == <<"a", ".txt", "_", "b", ".md">>   \* p, an underscore, more
PathC  == <<"c", ".exe">>                    \* a file no loader is kept for
Paths  == {PathA, PathAB}
UploadNames == {PathA}            \* the names uploads are declared under
FileNames == {PathA, PathAB, PathC}   \* the names files may be stored under

DotTokens == {".txt", ".md", ".exe"}

\* Path(file_path).suffix
Suffix(path) ==
    IF path # <<>> /\ path[Len(path)] \in DotTokens
    THEN path[Len(path)] ELSE ""

\* the keys of DocumentLoaderService.SUPPORTED_LOADERS
SUPPORTED_LOADERS == {".pdf", ".docx", ".doc", ".txt", ".html", ".htm", ".md"}

Hex == <<"u1", "u2", "u3", "u4", "u5", "u6", "u7", "u8">>

\* str(uuid.uuid4()): the n-th value drawn; never holds an underscore and
\* never repeats.
Uuid(n) == <<Hex[n]>>

Range(s) == {s[i] : i \in DOMAIN s}

\* str.startswith
StartsWith(str, prefix) ==
    /\ Len(prefix) <= Len(str)
    /\ SubSeq(str, 1, Len(prefix)) = prefix

\* f"{source}_{doc_uuid}"
ChunkId(source, n) == source \o <<"_">> \o Uuid(n)

\* f"{source_path}_"
SourcePrefix(source_path) == source_path \o <<"_">>

----------------------------------------------------------------------------
(* Documents *)

\* What the documents directory holds under a name: nothing, a file whose
\* loader.load() raises, or a file with a text, the sequence of its
\* characters (none for an empty file).
Absent  == [kind |-> "absent", text |-> <<>>]
Garbled == [kind |-> "garbled", text |-> <<>>]
Text(text) == [kind |-> "text", text |-> text]

Texts == {Text(<<>>), Text(<<"x">>)}
Contents == Texts \cup {Garbled}

Doc(source, text) == [source |-> source, text |-> text]

\* FAISS.from_texts(["初始化文档"], ...): the placeholder, without metadata
PlaceholderDoc == Doc(<<>>, <<"init">>)

\* Config.CHUNK_SIZE and Config.CHUNK_OVERLAP, configured values
ChunkSize == 3
ChunkOverlap == 1

\* what str.strip() takes off
Whitespace == {" ", "\n"}

RECURSIVE LStrip(_)
LStrip(t) ==
    IF t # <<>> /\ Head(t) \in Whitespace THEN LStrip(Tail(t)) ELSE t

RECURSIVE RStrip(_)
RStrip(t) ==
    IF t # <<>> /\ t[Len(t)] \in Whitespace
    THEN RStrip(SubSeq(t, 1, Len(t) - 1)) ELSE t

Strip(t) == RStrip(LStrip(t))

\* the separators of get_recursive_splitter, coarsest first; the three
\* full-width marks are one character each
Separators ==
    << <<"\n", "\n">>, <<"\n">>, <<"cjk_stop">>, <<"cjk_excl">>,
       <<"cjk_quest">>, <<".">>, <<"!">>, <<"?">>, <<" ">>, <<>> >>

\* re.search(re.escape(sep), text) for a separator that is not ""
Occurs(text, sep) ==
    \E i \in 1..(Len(text) - Len(sep) + 1) :
        SubSeq(text, i, i + Len(sep) - 1) = sep

\* the separator _split_text works with, the first of the list that is ""
\* or occurs in the text, and the finer ones kept for pieces too long
FirstSep(text, seps) ==
    LET hits == {i \in DOMAIN seps : seps[i] = <<>> \/ Occurs(text, seps[i])}
    IN  IF hits = {}
        THEN [sep |-> seps[Len(seps)], rest |-> <<>>]
        ELSE LET i == CHOOSE j \in hits : \A k \in hits : j <= k
             IN  [sep |-> seps[i],
                  rest |-> IF seps[i] = <<>> THEN <<>>
                           ELSE SubSeq(seps, i + 1, Len(seps))]

\* re.split with the separator kept at the start of the piece it precedes
RECURSIVE SplitKeep(_, _, _)
SplitKeep(rest, sep, cur) ==
    IF rest = <<>> THEN <<cur>>
    ELSE IF StartsWith(rest, sep)
    THEN <<cur>> \o SplitKeep(SubSeq(rest, Len(sep) + 1, Len(rest)), sep, sep)
    ELSE SplitKeep(Tail(rest), sep, Append(cur, Head(rest)))

\* _split_text_with_regex(text, separator, keep_separator=True): list(text)
\* for "", and no empty piece in the result
SplitWithRegex(text, sep) ==
    IF sep = <<>> THEN [i \in 1..Len(text) |-> <<text[i]>>]
    ELSE SelectSeq(SplitKeep(text, sep, <<>>), LAMBDA piece : piece # <<>>)

RECURSIVE Flatten(_)
Flatten(pieces) ==
    IF pieces = <<>> THEN <<>> ELSE Head(pieces) \o Flatten(Tail(pieces))

\* _join_docs: the pieces joined and stripped; None, here no chunk, when
\* nothing is left
Joined(pieces) ==
    LET t == Strip(Flatten(pieces))
    IN  IF t = <<>> THEN <<>> ELSE <<t>>

\* the while loop of _merge_splits: pieces leave the front of current_doc
\* until what stays is within the overlap and the next piece fits
RECURSIVE Shrink(_, _, _)
Shrink(cur, total, len) ==
    IF total > ChunkOverlap \/ (total + len > ChunkSize /\ total > 0)
    THEN Shrink(Tail(cur), total - Len(Head(cur)), len)
    ELSE [cur |-> cur, total |-> total]

\* _merge_splits(splits, ""): pieces gathered into chunks of at most
\* chunk_size characters
RECURSIVE MergeSplits(_, _, _)
MergeSplits(splits, cur, total) ==
    IF splits = <<>> THEN Joined(cur)
    ELSE LET d == Head(splits)
             over == total + Len(d) > ChunkSize /\ cur # <<>>
             k == IF over THEN Shrink(cur, total, Len(d))
                  ELSE [cur |-> cur, total |-> total]
         IN  (IF over THEN Joined(cur) ELSE <<>>)
                \o MergeSplits(Tail(splits), Append(k.cur, d),
                               k.total + Len(d))

\* RecursiveCharacterTextSplitter._split_text: pieces shorter than
\* chunk_size are merged, a longer piece is split with the finer separators
RECURSIVE SplitText(_, _)
RECURSIVE SplitPieces(_, _, _)
SplitPieces(splits, good, rest) ==
    IF splits = <<>> THEN MergeSplits(good, <<>>, 0)
    ELSE LET piece == Head(splits)
         IN  IF Len(piece) < ChunkSize
             THEN SplitPieces(Tail(splits), Append(good, piece), rest)
             ELSE MergeSplits(good, <<>>, 0)
                    \o (IF rest = <<>> THEN <<piece>>
                        ELSE SplitText(piece, rest))
                    \o SplitPieces(Tail(splits), <<>>, rest)

SplitText(text, seps) ==
    LET c == FirstSep(text, seps)
    IN  SplitPieces(SplitWithRegex(text, c.sep), <<>>, c.rest)

\* variant: a splitter that returns the page as its only chunk
ChunksOfWholeText(doc) == <<doc>>

\* create_documents for one page: a chunk per piece of split_text, each with
\* a copy of the page's metadata
ChunksOf(doc) ==
    LET texts == SplitText(doc.text, Separators)
    IN  [k \in 1..Len(texts) |-> Doc(doc.source, texts[k])]

\* text_splitter.split_documents(documents)
RECURSIVE SplitDocuments(_)
SplitDocuments(documents) ==
    IF documents = <<>> THEN <<>>
    ELSE ChunksOf(Head(documents)) \o SplitDocuments(Tail(documents))

\* load_document: loader.load() gives the file as one page, the page gets
\* metadata["source"] = str(path), and the splitter makes the chunks
LoadedChunks(path, content) == SplitDocuments(<<Doc(path, content.text)>>)

----------------------------------------------------------------------------
(* The similarity-search engine (langchain_community FAISS): an object     *)
(* holds the faiss index (ntotal vectors, addressed by position), the      *)
(* docstore (id -> Document) and index_to_docstore_id (position -> id).    *)

\* FAISS.from_texts with one text: one vector, one docstore entry, under a
\* fresh uuid
FromTexts(n) ==
    [ntotal |-> 1,
     docstore |-> (Uuid(n) :> PlaceholderDoc),
     i2d |-> <<Uuid(n)>>]

DocIds(st) == DOMAIN st.docstore
MappedIds(st) == Range(st.i2d)

\* variant: the batch takes the place of what the object held
AddOkReplacing(st, docs, ids) ==
    [ntotal |-> Len(docs),
     docstore |-> [id \in Range(ids) |->
                     docs[CHOOSE k \in DOMAIN ids : ids[k] = id]],
     i2d |-> ids]

\* FAISS.add_documents(documents, ids) when it returns: vectors, docstore
\* entries and position map all grow by the batch
AddOk(st, docs, ids) ==
    [ntotal |-> st.ntotal + Len(docs),
     docstore |-> [id \in DocIds(st) \cup Range(ids) |->
                     IF id \in DocIds(st) THEN st.docstore[id]
                     ELSE docs[CHOOSE k \in DOMAIN ids : ids[k] = id]],
     i2d |-> st.i2d \o ids]

\* FAISS.add_documents(documents, ids) once the texts are embedded: the
\* vectors are added, then docstore.add raises if an id is already stored;
\* otherwise the call returns.
AddOutcome(st, docs, ids) ==
    IF Range(ids) \cap DocIds(st) # {}
    THEN [raised |-> TRUE, st |-> [st EXCEPT !.ntotal = @ + Len(docs)]]
    ELSE [raised |-> FALSE, st |-> AddOk(st, docs, ids)]

Min(a, b) == IF a <= b THEN a ELSE b

\* docstore.delete pops the ids in order and raises at the first one that is
\* no longer there: the number of ids popped before that
RECURSIVE Popped(_, _)
Popped(ids, have) ==
    IF ids = <<>> \/ Head(ids) \notin have THEN 0
    ELSE 1 + Popped(Tail(ids), have \ {Head(ids)})

\* FAISS.delete(ids): raises before any change when an id is not mapped;
\* otherwise removes the vectors, pops the docstore entries and, only when
\* every pop succeeded, rebuilds the position map.
DeleteOutcome(st, ids) ==
    IF Range(ids) \ MappedIds(st) # {}
    THEN [raised |-> TRUE, st |-> st]
    ELSE LET hit == {p \in DOMAIN st.i2d : st.i2d[p] \in Range(ids)}
             gone == Cardinality({p \in hit : p <= st.ntotal})
             n == IF Range(ids) \cap DocIds(st) = {} THEN 0
                  ELSE Popped(ids, DocIds(st))
             popped == {ids[k] : k \in 1..n}
             left == [id \in DocIds(st) \ popped |-> st.docstore[id]]
         IN  IF n = Len(ids)
             THEN [raised |-> FALSE,
                   st |-> [ntotal |-> st.ntotal - gone,
                           docstore |-> left,
                           i2d |-> SelectSeq(st.i2d,
                                       LAMBDA id : id \notin Range(ids))]]
             ELSE [raised |-> TRUE,
                   st |-> [ntotal |-> st.ntotal - gone,
                           docstore |-> left,
                           i2d |-> st.i2d]]

----------------------------------------------------------------------------
(* State *)

vector_store == stores[Len(stores)]     \* FAISSVectorStore.vector_store

SetStore(st) == [stores EXCEPT ![Len(stores)] = st]

\* save_local writes the whole object; load_local reads it back
Snapshot(st) == [kind |-> "ok", snap |-> st]

Shared ==
    [store |-> vector_store, disk |-> disk, ledger |-> ledger, torn |-> torn]

Idle(s) == pc[s] = "idle"

EmptyFrame ==
    [op |-> "none", path |-> <<>>, docs |-> <<>>, gen |-> TRUE, ids |-> <<>>,
     bs |-> DefaultBatchSize, i |-> 0, paths |-> <<>>, found |-> {},
     skip |-> TRUE, read |-> FALSE, all |-> <<>>, fresh |-> {},
     result |-> "none"]

\* a session without a chain; of a chain: the objects its retriever and its
\* tool's retriever hold, self.history, everything that was ever appended to
\* it (said), and the tool's last_docs
NoChain ==
    [built |-> FALSE, retriever |-> 0, tool |-> 0, history |-> <<>>,
     said |-> <<>>, last_docs |-> {}]
NotCleared == [on |-> FALSE, ids |-> {}]

\* A started process: get_faiss_vector_store() has built the singleton,
\* there was no snapshot, so a placeholder index was made and saved; no
\* session has built its chain yet.
Init ==
    /\ files = [p \in FileNames |-> Absent]
    /\ ledger = <<>>
    /\ torn = <<>>
    /\ stores = <<FromTexts(1)>>
    /\ disk = Snapshot(FromTexts(1))
    /\ uuids = 1
    /\ pc = [s \in Sessions |-> "idle"]
    /\ frame = [s \in Sessions |-> EmptyFrame]
    /\ chains = [s \in Sessions |-> NoChain]
    /\ faults = 0
    /\ pre = [store |-> FromTexts(1), disk |-> Snapshot(FromTexts(1)),
              ledger |-> <<>>, torn |-> <<>>]
    /\ cleared = NotCleared
    /\ persisted = {}

----------------------------------------------------------------------------
(* The FAISS objects that are still referenced: the current one and those  *)
(* a retriever holds.  The others are freed; the handles are renumbered.   *)

Live(st, ch) ==
    {Len(st)} \cup {ch[s].retriever : s \in {t \in Sessions : ch[t].built}}
              \cup {ch[s].tool : s \in {t \in Sessions : ch[t].built}}

Rank(L, i) == Cardinality({j \in L : j <= i})

KeptStores(st, ch) ==
    [k \in 1..Cardinality(Live(st, ch)) |->
        st[CHOOSE j \in Live(st, ch) : Rank(Live(st, ch), j) = k]]

KeptChains(st, ch) ==
    [s \in Sessions |->
        IF ch[s].built
        THEN [ch[s] EXCEPT !.retriever = Rank(Live(st, ch), @),
                           !.tool = Rank(Live(st, ch), @)]
        ELSE ch[s]]

----------------------------------------------------------------------------
(* Calls and returns *)

\* A session starts a call when it runs none; with serial, only when no
\* session runs one.
CanBegin(s, serial) ==
    /\ Idle(s)
    /\ serial => \A t \in Sessions : Idle(t)

\* The frame of the new call; the frames of finished calls are dropped.
Begin(s, f, at) ==
    /\ frame' = [t \in Sessions |->
                    IF t = s THEN f
                    ELSE IF Idle(t) THEN EmptyFrame ELSE frame[t]]
    /\ pc' = [pc EXCEPT ![s] = at]
    /\ pre' = Shared

Goto(s, at) == pc' = [pc EXCEPT ![s] = at]

\* The call of s ends with result r (a returned value or a raised error)
Return(s, r) ==
    /\ pc' = [pc EXCEPT ![s] = "idle"]
    /\ frame' = [frame EXCEPT ![s].result = r]

\* A call into the engine raises: the embedding service or the write of
\* the snapshot fails, or the engine rejects its arguments
Fault == faults < MaxFaults /\ faults' = faults + 1

FaultIf(raised) == IF raised THEN Fault ELSE UNCHANGED faults

----------------------------------------------------------------------------
(* Insert: FAISSVectorStore.add_documents(documents, batch_size, ids)      *)

DocA == Doc(PathA, <<"x">>)
DocAB == Doc(PathAB, <<"y">>)
DocSeqs == {<<>>, <<DocA, DocAB>>}

\* ids a caller may supply
CallerId1 == PathA \o <<"_", "k1">>
CallerId2 == <<"k2">>
CallerIds == {<<CallerId1>>, <<CallerId1, CallerId2>>}

\* variant: one uuid drawn for the whole call
GeneratedIdsOneUuid(docs) ==
    [k \in 1..Len(docs) |-> ChunkId(docs[k].source, uuids + 1)]

\* one id per document, f"{source}_{uuid4}"
GeneratedIds(docs) ==
    [k \in 1..Len(docs) |-> ChunkId(docs[k].source, uuids + k)]

\* add_documents without the test "if not documents": what the return of
\* False on an empty list is measured against
ValidateWithoutEmptyTest(docs, gen, ids) ==
    LET given == IF gen THEN GeneratedIds(docs) ELSE ids
        drawn == IF gen THEN Len(docs) ELSE 0
    IN  IF Len(docs) # Len(given)
        THEN [result |-> "ValueError", ids |-> given, drawn |-> drawn]
        ELSE [result |-> "ok", ids |-> given, drawn |-> drawn]

\* add_documents without the comparison of the two lengths: what the
\* ValueError on a count mismatch is measured against
ValidateWithoutCountTest(docs, gen, ids) ==
    IF docs = <<>>
    THEN [result |-> "False", ids |-> ids, drawn |-> 0]
    ELSE [result |-> "ok",
          ids |-> IF gen THEN GeneratedIds(docs) ELSE ids,
          drawn |-> IF gen THEN Len(docs) ELSE 0]

\* add_documents up to the batching: no documents, False; the ids are
\* generated when none are given; a count that differs raises ValueError
Validate(docs, gen, ids) ==
    IF docs = <<>>
    THEN [result |-> "False", ids |-> ids, drawn |-> 0]
    ELSE LET given == IF gen THEN GeneratedIds(docs) ELSE ids
             drawn == IF gen THEN Len(docs) ELSE 0
         IN  IF Len(docs) # Len(given)
             THEN [result |-> "ValueError", ids |-> given, drawn |-> drawn]
             ELSE [result |-> "ok", ids |-> given, drawn |-> drawn]

\* the call up to the loop over the batches, for the frame f of session s
AddDocuments_Begin(s, f, begin) ==
    LET v == Validate(f.docs, f.gen, f.ids)
        g == [f EXCEPT !.ids = v.ids, !.i = 0]
    IN  /\ uuids + v.drawn <= MaxUuid
        /\ v.result = "ok" => vector_store.ntotal + Len(f.docs) <= MaxVectors
        /\ uuids' = uuids + v.drawn
        /\ cleared' = NotCleared
        /\ IF v.result = "ok"
           THEN IF begin
                THEN Begin(s, [g EXCEPT !.result = "pending"], "batch")
                ELSE frame' = [frame EXCEPT ![s] = g] /\ Goto(s, "batch")
           ELSE IF begin
                THEN Begin(s, [g EXCEPT !.result = v.result], "idle")
                ELSE /\ frame' = [frame EXCEPT ![s] = [g EXCEPT
                                                     !.result = v.result]]
                     /\ Goto(s, "idle")

\* a direct call of the store's add_documents
Insert(s, serial, docs, gen, ids, bs) ==
    /\ CanBegin(s, serial)
    /\ AddDocuments_Begin(s, [EmptyFrame EXCEPT !.op = "insert",
                                !.docs = docs, !.gen = gen, !.ids = ids,
                                !.bs = bs], TRUE)
    /\ UNCHANGED <<files, ledger, torn, stores, disk, chains, faults, persisted>>

\* documents[i:i+batch_size] and ids[i:i+batch_size] of batch number i
Batch(seq, i, bs) == SubSeq(seq, i * bs + 1, Min((i + 1) * bs, Len(seq)))

\* one turn of the loop over the batches: the embedding call raises out of
\* add_documents before the object is touched, or the engine adds the batch
\* to the current object, or raises half-way
AddDocuments_Batch(s) ==
    /\ pc[s] = "batch"
    /\ frame[s].i * frame[s].bs < Len(frame[s].docs)
    /\ LET f == frame[s]
           o == AddOutcome(vector_store, Batch(f.docs, f.i, f.bs),
                           Batch(f.ids, f.i, f.bs))
       IN  \/ /\ Fault
              /\ UNCHANGED stores
              /\ Return(s, "EngineError")
           \/ /\ FaultIf(o.raised)
              /\ stores' = SetStore(o.st)
              /\ IF o.raised
                 THEN Return(s, "EngineError")
                 ELSE /\ frame' = [frame EXCEPT ![s].i = f.i + 1]
                      /\ UNCHANGED pc
    /\ UNCHANGED <<files, ledger, torn, disk, uuids, chains, pre, cleared,
                   persisted>>

\* after the loop: save_local, then True; a failed save raises
AddDocuments_Save(s) ==
    /\ pc[s] = "batch"
    /\ frame[s].i * frame[s].bs >= Len(frame[s].docs)
    /\ \/ /\ disk' = Snapshot(vector_store)
          /\ persisted' = persisted \cup
                            {frame[s].docs[k].source : k \in DOMAIN frame[s].docs}
          /\ UNCHANGED faults
          /\ IF frame[s].op = "upload"
             THEN Goto(s, "retriever") /\ UNCHANGED frame
             ELSE Return(s, "True")
       \/ /\ Fault
          /\ UNCHANGED <<disk, persisted>>
          /\ Return(s, "SaveError")
    /\ UNCHANGED <<files, ledger, torn, stores, uuids, chains, pre, cleared>>

----------------------------------------------------------------------------
(* Delete: FAISSVectorStore.delete(ids)                                    *)

\* the sequences of at most two elements of S
UpTo2(S) == {<<>>} \cup {<<x>> : x \in S} \cup {<<x, y>> : x, y \in S}

\* delete(ids): an empty list returns False at once; otherwise
\* self.vector_store.delete(ids=ids), and an exception is caught: False
Delete(s, serial, ids) ==
    /\ CanBegin(s, serial)
    /\ LET f == [EmptyFrame EXCEPT !.op = "delete", !.ids = ids]
           o == DeleteOutcome(vector_store, ids)
       IN  IF ids = <<>>
           THEN /\ Begin(s, [f EXCEPT !.result = "False"], "idle")
                /\ UNCHANGED <<stores, faults>>
           ELSE /\ FaultIf(o.raised)
                /\ stores' = SetStore(o.st)
                /\ IF o.raised
                   THEN Begin(s, [f EXCEPT !.result = "False"], "idle")
                   ELSE Begin(s, [f EXCEPT !.result = "pending"], "delete_save")
    /\ UNCHANGED <<files, ledger, torn, disk, uuids, chains, cleared, persisted>>

\* self.save() inside the same try: True when the snapshot was written,
\* False when save_local raised
Delete_Save(s) ==
    /\ pc[s] = "delete_save"
    /\ \/ disk' = Snapshot(vector_store) /\ UNCHANGED faults /\ Return(s, "True")
       \/ Fault /\ UNCHANGED disk /\ Return(s, "False")
    /\ UNCHANGED <<files, ledger, torn, stores, uuids, chains, pre, cleared,
                   persisted>>

----------------------------------------------------------------------------
(* Delete by source: FAISSVectorStore.delete_by_source(source_paths)       *)

\* the inner loop: the stored ids, in order, that start with f"{source_path}_"
MatchingIds(all_ids, source_path) ==
    SelectSeq(all_ids, LAMBDA doc_id :
                  StartsWith(doc_id, SourcePrefix(source_path)))

\* the outer loop: ids_to_delete grows by the matches of each source path
RECURSIVE IdsToDelete(_, _)
IdsToDelete(all_ids, source_paths) ==
    IF source_paths = <<>> THEN <<>>
    ELSE MatchingIds(all_ids, Head(source_paths))
            \o IdsToDelete(all_ids, Tail(source_paths))

\* delete_by_source(source_paths): an empty list returns False at once;
\* all_ids is read and the matches are collected; none: False; otherwise
\* the engine deletes them, and an exception is caught: False
DeleteBySource(s, serial, paths) ==
    /\ CanBegin(s, serial)
    /\ LET ids_to_delete == IdsToDelete(vector_store.i2d, paths)
           f == [EmptyFrame EXCEPT !.op = "delete_by_source",
                                   !.paths = paths, !.ids = ids_to_delete]
           o == DeleteOutcome(vector_store, ids_to_delete)
       IN  IF paths = <<>> \/ ids_to_delete = <<>>
           THEN /\ Begin(s, [f EXCEPT !.result = "False"], "idle")
                /\ UNCHANGED <<stores, faults>>
           ELSE /\ FaultIf(o.raised)
                /\ stores' = SetStore(o.st)
                /\ IF o.raised
                   THEN Begin(s, [f EXCEPT !.result = "False"], "idle")
                   ELSE Begin(s, [f EXCEPT !.result = "pending"], "source_save")
    /\ UNCHANGED <<files, ledger, torn, disk, uuids, chains, cleared, persisted>>

\* self.save() inside the same try
DeleteBySource_Save(s) ==
    /\ pc[s] = "source_save"
    /\ \/ disk' = Snapshot(vector_store) /\ UNCHANGED faults /\ Return(s, "True")
       \/ Fault /\ UNCHANGED disk /\ Return(s, "False")
    /\ UNCHANGED <<files, ledger, torn, stores, uuids, chains, pre, cleared,
                   persisted>>

----------------------------------------------------------------------------
(* Clear: FAISSVectorStore.clear()                                         *)

\* a clear() that keeps the object it has: what the emptiness after
\* clear() is measured against
ClearedStoreKept(n) == vector_store

\* the object clear() builds: FAISS.from_texts(["初始化文档"], embeddings)
ClearedStore(n) == FromTexts(n)

\* self.vector_store = FAISS.from_texts(...): the new object takes the
\* place of the current one, which lives on while a retriever holds it;
\* when the embedding call raises nothing is assigned
Clear_Replace(s, serial) ==
    /\ CanBegin(s, serial)
    /\ uuids < MaxUuid
    /\ LET f == [EmptyFrame EXCEPT !.op = "clear"]
           grown == Append(stores, ClearedStore(uuids + 1))
       IN  \/ /\ stores' = KeptStores(grown, chains)
              /\ chains' = KeptChains(grown, chains)
              /\ uuids' = uuids + 1
              /\ cleared' = [on |-> FALSE,
                             ids |-> DocIds(vector_store) \cup
                                     MappedIds(vector_store)]
              /\ UNCHANGED faults
              /\ Begin(s, [f EXCEPT !.result = "pending"], "clear_save")
           \/ /\ Fault
              /\ UNCHANGED <<stores, chains, uuids, cleared>>
              /\ Begin(s, [f EXCEPT !.result = "EngineError"], "idle")
    /\ UNCHANGED <<files, ledger, torn, disk, persisted>>

\* self.save(): clear returns None, or save_local raises out of it
Clear_Save(s) ==
    /\ pc[s] = "clear_save"
    /\ \/ /\ disk' = Snapshot(vector_store)
          /\ cleared' = [cleared EXCEPT !.on = TRUE]
          /\ UNCHANGED faults
          /\ Return(s, "None")
       \/ /\ Fault
          /\ UNCHANGED <<disk, cleared>>
          /\ Return(s, "SaveError")
    /\ UNCHANGED <<files, ledger, torn, stores, uuids, chains, pre, persisted>>

----------------------------------------------------------------------------
(* Search: FAISSVectorStore.search(query, k)                               *)

\* The faiss index answers with the positions of the k nearest vectors (all
\* of them when it holds fewer); which ones depends on the embeddings.
NearestPositions(st, k) ==
    {P \in SUBSET (1..st.ntotal) : Cardinality(P) = Min(k, st.ntotal)}

\* similarity_search resolves each position to its id and its Document
Resolvable(st, P) ==
    \A p \in P : p \in DOMAIN st.i2d /\ st.i2d[p] \in DocIds(st)

Resolved(st, P) ==
    {[id |-> st.i2d[p], doc |-> st.docstore[st.i2d[p]]] : p \in P}

\* self.vector_store.similarity_search(query, k=k or Config.TOP_K): the
\* documents found, or the engine raises on a position it cannot resolve
Search(s, serial) ==
    /\ CanBegin(s, serial)
    /\ \E P \in NearestPositions(vector_store, TopK) :
          LET f == [EmptyFrame EXCEPT !.op = "search"]
          IN  IF Resolvable(vector_store, P)
              THEN Begin(s, [f EXCEPT !.found = Resolved(vector_store, P),
                                      !.result = "Found"], "idle")
              ELSE Begin(s, [f EXCEPT !.result = "EngineError"], "idle")
    /\ UNCHANGED <<files, ledger, torn, stores, disk, uuids, chains, faults,
                   cleared, persisted>>

----------------------------------------------------------------------------
(* Restart: the process ends (at any point, also inside a call) and starts *)
(* again; get_faiss_vector_store builds the singleton anew.                *)

\* What the snapshot directory may hold instead of a snapshot: files that
\* load_local cannot read, or nothing.
Damaged == [kind |-> "garbled"]
Missing == [kind |-> "absent"]

\* an opening that makes a fresh index without saving it: what the save of
\* a fresh index is measured against
LoadOrCreateWithoutSave(n) ==
    IF disk.kind = "ok"
    THEN [store |-> disk.snap, disk |-> disk, drawn |-> 0]
    ELSE [store |-> FromTexts(n), disk |-> disk, drawn |-> 1]

\* an opening that never loads: what the reload of a snapshot is measured
\* against
LoadOrCreateWithoutLoad(n) ==
    [store |-> FromTexts(n), disk |-> Snapshot(FromTexts(n)), drawn |-> 1]

\* _load_or_create_vector_store: the snapshot directory is loaded when it
\* holds a readable snapshot; when it is empty, or load_local raises, a
\* placeholder index is made and saved
LoadOrCreate(n) ==
    IF disk.kind = "ok"
    THEN [store |-> disk.snap, disk |-> disk, drawn |-> 0]
    ELSE [store |-> FromTexts(n), disk |-> Snapshot(FromTexts(n)), drawn |-> 1]

\* The new process: no call is running, no chain is built, and the store is
\* what _load_or_create_vector_store returns.  (A start whose from_texts or
\* save_local raises leaves no process and changes nothing.)
Reopen ==
    /\ disk.kind # "ok" => uuids < MaxUuid
    /\ LET o == LoadOrCreate(uuids + 1)
       IN  /\ stores' = <<o.store>>
           /\ disk' = o.disk
           /\ uuids' = uuids + o.drawn
    /\ pre' = Shared
    /\ pc' = [s \in Sessions |-> "idle"]
    /\ frame' = [s \in Sessions |-> EmptyFrame]
    /\ chains' = [s \in Sessions |-> NoChain]
    /\ cleared' = IF cleared.on THEN cleared ELSE NotCleared

Restart ==
    /\ Reopen
    /\ UNCHANGED <<files, ledger, torn, faults, persisted>>

\* The snapshot directory is damaged, or emptied, from outside the program
SnapshotDamaged ==
    /\ disk.kind = "ok"
    /\ disk' = Damaged
    /\ UNCHANGED <<files, ledger, torn, stores, uuids, pc, frame, chains,
                   faults, pre, cleared, persisted>>

SnapshotRemoved ==
    /\ disk.kind = "ok"
    /\ disk' = Missing
    /\ UNCHANGED <<files, ledger, torn, stores, uuids, pc, frame, chains,
                   faults, pre, cleared, persisted>>

----------------------------------------------------------------------------
(* Upload: FAISSConversationalRAGChain.add_documents(file_path), called by *)
(* upload_document of the web page, which catches what it raises.          *)

\* FAISSConversationalRAGChain.__init__: the retriever of the chain and the
\* retriever inside its RetrievalTool are handles on the current object
NewChain(s) ==
    /\ Idle(s)
    /\ ~chains[s].built
    /\ chains' = [chains EXCEPT ![s] = [NoChain EXCEPT
                                          !.built = TRUE,
                                          !.retriever = Len(stores),
                                          !.tool = Len(stores)]]
    /\ UNCHANGED <<files, ledger, torn, stores, disk, uuids, pc, frame, faults,
                   pre, cleared, persisted>>

\* save_uploaded_file: the upload is written under DOCUMENTS_DIR / name, over
\* a file of that name if there is one
UploadSave(s, serial, name, content) ==
    /\ CanBegin(s, serial)
    /\ chains[s].built
    /\ uuids + Len(LoadedChunks(name, content)) <= MaxUuid
    /\ vector_store.ntotal + Len(LoadedChunks(name, content)) <= MaxVectors
    /\ files' = [files EXCEPT ![name] = content]
    /\ Begin(s, [EmptyFrame EXCEPT !.op = "upload", !.path = name,
                                   !.result = "pending"], "process")
    /\ UNCHANGED <<ledger, torn, stores, disk, uuids, chains, faults, cleared,
                   persisted>>

\* load_document: a suffix without a loader raises ValueError before the
\* file is touched; otherwise loader.load() reads the file, and raises on
\* one it cannot read; the chunks are those of the file as it is stored now
LoadDocument(path) ==
    IF Suffix(path) \notin SUPPORTED_LOADERS
    THEN [result |-> "ValueError", read |-> FALSE, chunks |-> <<>>]
    ELSE IF files[path].kind = "text"
         THEN [result |-> "ok", read |-> TRUE,
               chunks |-> LoadedChunks(path, files[path])]
         ELSE [result |-> "LoaderError", read |-> TRUE, chunks |-> <<>>]

\* variant: the ledger is never consulted
IsDocumentProcessedNever(doc_id) == FALSE

\* _is_document_processed: doc_id in f.read().splitlines(), which gives
\* the complete lines and, as one more line, what follows the last break
IsDocumentProcessed(doc_id) ==
    doc_id \in Range(ledger) \cup (IF torn = <<>> THEN {} ELSE {torn})

\* the call of s ends with result r, its frame being f
Finish(s, f, r) ==
    /\ pc' = [pc EXCEPT ![s] = "idle"]
    /\ frame' = [frame EXCEPT ![s] = [f EXCEPT !.result = r]]

\* variant: the first file that has been dealt with ends the whole call
FileReturnedAborting(s, f, file_chunks) ==
    Finish(s, [f EXCEPT !.all = @ \o file_chunks], "Chunks")

\* _process_file returns file_chunks to its caller, whose frame is f:
\* add_documents of the chain returns on "if not chunks" and inserts
\* otherwise; a direct caller has its answer; _process_directory extends
\* all_chunks and takes the next file
FileReturned(s, f, file_chunks) ==
    IF f.op = "upload"
    THEN IF file_chunks = <<>>
         THEN Finish(s, f, "None")
         ELSE Goto(s, "insert") /\ frame' = [frame EXCEPT ![s] = f]
    ELSE IF f.op = "process_file"
    THEN Finish(s, f, "Chunks")
    ELSE LET g == [f EXCEPT !.all = @ \o file_chunks, !.docs = <<>>]
         IN  IF f.paths = <<>>
             THEN Finish(s, g, "Chunks")
             ELSE /\ Goto(s, "process")
                  /\ frame' = [frame EXCEPT ![s] =
                                 [g EXCEPT !.path = Head(f.paths),
                                           !.paths = Tail(f.paths)]]

\* _process_file, the dedup check: with skip_processed, a recorded path
\* yields no chunks
ProcessFile_Check(s) ==
    /\ pc[s] = "process"
    /\ IF frame[s].skip /\ IsDocumentProcessed(frame[s].path)
       THEN FileReturned(s, frame[s], <<>>)
       ELSE Goto(s, "load") /\ UNCHANGED frame
    /\ UNCHANGED <<files, ledger, torn, stores, disk, uuids, chains, faults,
                   pre, cleared, persisted>>

\* _process_file, load_document inside the try: what it raises is caught
\* and yields no chunks
ProcessFile_Load(s) ==
    /\ pc[s] = "load"
    /\ LET o == LoadDocument(frame[s].path)
           f == [frame[s] EXCEPT !.read = @ \/ o.read, !.docs = o.chunks]
       IN  IF o.result = "ok"
           THEN Goto(s, "record") /\ frame' = [frame EXCEPT ![s] = f]
           ELSE FileReturned(s, f, <<>>)
    /\ UNCHANGED <<files, ledger, torn, stores, disk, uuids, chains, faults,
                   pre, cleared, persisted>>

\* a record that truncates the file before it writes: what the keeping of
\* earlier lines is measured against
RecordByRewriting(doc_id) == <<doc_id>>

\* _record_processed_document: open(..., "a") and write f"{doc_id}\n"; the
\* text lands behind what the file ends with, and the line ends there
RecordProcessedDocument(doc_id) == Append(ledger, torn \o doc_id)

\* _process_file records the path as soon as load_document has returned,
\* then returns the chunks
ProcessFile_Record(s) ==
    /\ pc[s] = "record"
    /\ ledger' = RecordProcessedDocument(frame[s].path)
    /\ torn' = <<>>
    /\ FileReturned(s, frame[s], frame[s].docs)
    /\ UNCHANGED <<files, stores, disk, uuids, chains, faults, pre, cleared,
                   persisted>>

\* self.faiss_store.add_documents(chunks): ids and batch_size are defaulted
AddDocuments_Start(s) ==
    /\ pc[s] = "insert"
    /\ AddDocuments_Begin(s, [frame[s] EXCEPT !.gen = TRUE, !.ids = <<>>,
                                              !.bs = DefaultBatchSize], FALSE)
    /\ UNCHANGED <<files, ledger, torn, stores, disk, chains, faults, pre,
                   persisted>>

\* self.retriever = self.faiss_store.get_retriever(): a handle on the FAISS
\* object that is current now; the RetrievalTool keeps the one it was built
\* with
UpdateRetriever(s) ==
    /\ pc[s] = "retriever"
    /\ LET ch == [chains EXCEPT ![s].retriever = Len(stores)]
       IN  /\ stores' = KeptStores(stores, ch)
           /\ chains' = KeptChains(stores, ch)
    /\ Return(s, "None")
    /\ UNCHANGED <<files, ledger, torn, disk, uuids, faults, pre, cleared,
                   persisted>>

----------------------------------------------------------------------------
(* The conversation: FAISSConversationalRAGChain.call(question)            *)

\* Config.MAX_HISTORY_LENGTH, a configured value: turns, of two messages
MaxHistoryLength == 2

Questions == {"q1", "q2"}

Msg(role, content) == [role |-> role, content |-> content]

\* the two messages call puts into an empty history
InitMessages ==
    <<Msg("user", "Initialize conversation"),
      Msg("assistant", "I'm ready to answer your questions.")>>

\* variant: the first messages are kept instead of the last
TruncatedToOldest(history) ==
    IF Len(history) > MaxHistoryLength * 2
    THEN SubSeq(history, 1, MaxHistoryLength * 2)
    ELSE history

\* self.history[-Config.MAX_HISTORY_LENGTH * 2:] when the history is longer
Truncated(history) ==
    IF Len(history) > MaxHistoryLength * 2
    THEN SubSeq(history, Len(history) - MaxHistoryLength * 2 + 1,
                Len(history))
    ELSE history

\* call(question): two messages open an empty history; agent.invoke raises,
\* or answers with or without a call of the retrieval tool, which searches
\* the object its retriever holds and keeps what it found in last_docs; the
\* sources are last_docs, or when that is empty what self.retriever finds;
\* the turn is appended and the history cut to its last messages
Call(s, serial, question) ==
    /\ CanBegin(s, serial)
    /\ chains[s].built
    /\ Len(chains[s].said) < MaxSaid
    /\ LET ch == chains[s]
           opened == ch.history = <<>>
           h0 == IF opened THEN InitMessages ELSE ch.history
           s0 == IF opened THEN ch.said \o InitMessages ELSE ch.said
           f == [EmptyFrame EXCEPT !.op = "call", !.path = <<question>>]
           failed(r) ==
               /\ chains' = [chains EXCEPT ![s].history = h0, ![s].said = s0]
               /\ Begin(s, [f EXCEPT !.result = r], "idle")
       IN  \/ Fault /\ failed("AgentError")
           \/ /\ UNCHANGED faults
              /\ \E used \in BOOLEAN,
                    Pt \in NearestPositions(stores[ch.tool], TopK),
                    Pr \in NearestPositions(stores[ch.retriever], TopK) :
                    LET told == IF used THEN Resolved(stores[ch.tool], Pt)
                                ELSE {}
                        last == IF used THEN told ELSE ch.last_docs
                        direct == last = {}
                        sources == IF direct
                                   THEN Resolved(stores[ch.retriever], Pr)
                                   ELSE last
                        turn == <<Msg("user", question),
                                  Msg("assistant", "answer")>>
                    IN  IF (used /\ ~Resolvable(stores[ch.tool], Pt))
                           \/ (direct /\ ~Resolvable(stores[ch.retriever], Pr))
                        THEN failed("EngineError")
                        ELSE /\ chains' =
                                  [chains EXCEPT
                                     ![s].history = Truncated(h0 \o turn),
                                     ![s].said = s0 \o turn,
                                     ![s].last_docs = last]
                             /\ Begin(s, [f EXCEPT
                                            !.found = sources,
                                            !.fresh = told \cup
                                               (IF direct THEN sources ELSE {}),
                                            !.result = "Answer"], "idle")
    /\ UNCHANGED <<files, ledger, torn, stores, disk, uuids, cleared,
                   persisted>>

----------------------------------------------------------------------------
(* The loader behind its own interface: DocumentLoaderService              *)

\* save_uploaded_file(uploaded_file): written under DOCUMENTS_DIR / name
SaveUploadedFile(s, serial, name, content) ==
    /\ CanBegin(s, serial)
    /\ files' = [files EXCEPT ![name] = content]
    /\ Begin(s, [EmptyFrame EXCEPT !.op = "save_uploaded_file",
                                   !.path = name, !.result = "Path"], "idle")
    /\ UNCHANGED <<ledger, torn, stores, disk, uuids, chains, faults, cleared,
                   persisted>>

\* load_document(file_path): the chunks, or what it raises
LoadDocumentCall(s, serial, path) ==
    /\ CanBegin(s, serial)
    /\ LET o == LoadDocument(path)
       IN  Begin(s, [EmptyFrame EXCEPT
                       !.op = "load_document", !.path = path,
                       !.docs = o.chunks, !.read = o.read,
                       !.result = IF o.result = "ok" THEN "Chunks"
                                  ELSE o.result], "idle")
    /\ UNCHANGED <<files, ledger, torn, stores, disk, uuids, chains, faults,
                   cleared, persisted>>

\* _process_file(file_path, skip_processed)
ProcessFile(s, serial, path, skip) ==
    /\ CanBegin(s, serial)
    /\ Len(ledger) < MaxLedger
    /\ Begin(s, [EmptyFrame EXCEPT !.op = "process_file", !.path = path,
                                   !.skip = skip, !.result = "pending"],
             "process")
    /\ UNCHANGED <<files, ledger, torn, stores, disk, uuids, chains, faults,
                   cleared, persisted>>

\* directory.rglob("*") filtered by is_file() and a supported suffix
Listed == {p \in FileNames : files[p].kind # "absent"
                             /\ Suffix(p) \in SUPPORTED_LOADERS}

\* the orders in which the directory may be walked
Orderings(S) ==
    {seq \in [1..Cardinality(S) -> S] : Range(seq) = S}

\* _process_directory(directory, skip_processed): _process_file for every
\* listed file, the chunks gathered in all_chunks
ProcessDirectory(s, serial, skip, listing) ==
    /\ CanBegin(s, serial)
    /\ listing \in Orderings(Listed)
    /\ Len(ledger) + Len(listing) <= MaxLedger
    /\ LET f == [EmptyFrame EXCEPT !.op = "process_directory",
                                   !.skip = skip]
       IN  IF listing = <<>>
           THEN Begin(s, [f EXCEPT !.result = "Chunks"], "idle")
           ELSE Begin(s, [f EXCEPT !.path = Head(listing),
                                   !.paths = Tail(listing),
                                   !.result = "pending"], "process")
    /\ UNCHANGED <<files, ledger, torn, stores, disk, uuids, chains, faults,
                   cleared, persisted>>

\* The process ends inside f.write(f"{doc_id}\n"): some of the text is in
\* the file, the line break is not
RecordCrash(s) ==
    /\ pc[s] = "record"
    /\ \E k \in 1..Len(frame[s].path) :
          /\ Len(torn) + k <= MaxTorn
          /\ torn' = torn \o SubSeq(frame[s].path, 1, k)
    /\ Reopen
    /\ UNCHANGED <<files, ledger, faults, persisted>>

----------------------------------------------------------------------------
(* The specifications *)

\* what delete may be asked to remove: ids the store knows, and one it
\* does not
DeletableIds ==
    MappedIds(vector_store) \cup DocIds(vector_store) \cup {CallerId2}

StoreCall(s, serial) ==
    \/ \E docs \in DocSeqs, bs \in {1, DefaultBatchSize} :
          \/ Insert(s, serial, docs, TRUE, <<>>, bs)
          \/ \E ids \in CallerIds : Insert(s, serial, docs, FALSE, ids, bs)
    \/ \E ids \in UpTo2(DeletableIds) : Delete(s, serial, ids)
    \/ \E paths \in UpTo2(Paths) : DeleteBySource(s, serial, paths)
    \/ Clear_Replace(s, serial)
    \/ Search(s, serial)

StoreStep(s) ==
    \/ AddDocuments_Batch(s)
    \/ AddDocuments_Save(s)
    \/ Delete_Save(s)
    \/ DeleteBySource_Save(s)
    \/ Clear_Save(s)

\* The store behind its own interface: the calls of one caller, one after
\* the other, and restarts
Next ==
    \/ \E s \in {1} : StoreCall(s, TRUE) \/ StoreStep(s)
    \/ Restart

Spec == Init /\ [][Next]_vars

IngestCall(s, serial) ==
    \/ NewChain(s)
    \/ \E name \in UploadNames, content \in Contents :
          UploadSave(s, serial, name, content)
    \/ \E paths \in UpTo2(Paths) : DeleteBySource(s, serial, paths)
    \/ Clear_Replace(s, serial)
    \/ Search(s, serial)

IngestStep(s) ==
    \/ ProcessFile_Check(s)
    \/ ProcessFile_Load(s)
    \/ ProcessFile_Record(s)
    \/ AddDocuments_Start(s)
    \/ AddDocuments_Batch(s)
    \/ AddDocuments_Save(s)
    \/ UpdateRetriever(s)
    \/ DeleteBySource_Save(s)
    \/ Clear_Save(s)

\* Uploads through the chain of one session, with the maintenance calls of
\* the store, and restarts
NextIngest ==
    \/ \E s \in {1} : IngestCall(s, TRUE) \/ IngestStep(s)
    \/ Restart

SpecIngest == Init /\ [][NextIngest]_vars

OpenCall(s, serial) ==
    \/ \E docs \in DocSeqs, bs \in {1, DefaultBatchSize} :
          Insert(s, serial, docs, TRUE, <<>>, bs)
    \/ Clear_Replace(s, serial)
    \/ Search(s, serial)

OpenStep(s) ==
    \/ AddDocuments_Batch(s)
    \/ AddDocuments_Save(s)
    \/ Clear_Save(s)

\* The store across restarts, with a snapshot directory that can be damaged
\* or emptied
NextOpen ==
    \/ \E s \in {1} : OpenCall(s, TRUE) \/ OpenStep(s)
    \/ Restart
    \/ SnapshotDamaged
    \/ SnapshotRemoved

SpecOpen == Init /\ [][NextOpen]_vars

\* the characters of the pages: a letter and the two kinds of whitespace
\* that are separators
Chars == {"x", " ", "\n"}

\* the pages handed to the splitter
Pages ==
    {Doc(source, text) :
        source \in Paths,
        text \in UNION {[1..n -> Chars] : n \in 0..MaxText}}

\* self.text_splitter.split_documents(documents) for one page
SplitDocumentsCall(s, serial, doc) ==
    /\ CanBegin(s, serial)
    /\ Begin(s, [EmptyFrame EXCEPT !.op = "split_documents",
                                   !.docs = <<doc>>,
                                   !.all = SplitDocuments(<<doc>>),
                                   !.result = "Chunks"], "idle")
    /\ UNCHANGED <<files, ledger, torn, stores, disk, uuids, chains, faults,
                   cleared, persisted>>

\* The splitter on its own
NextSplit == \E s \in {1} : \E doc \in Pages : SplitDocumentsCall(s, TRUE, doc)

SpecSplit == Init /\ [][NextSplit]_vars

ChatCall(s, serial) ==
    \/ NewChain(s)
    \/ \E question \in Questions : Call(s, serial, question)
    \/ UploadSave(s, serial, PathA, Text(<<"x">>))
    \/ Clear_Replace(s, serial)

ChatStep(s) ==
    \/ ProcessFile_Check(s)
    \/ ProcessFile_Load(s)
    \/ ProcessFile_Record(s)
    \/ AddDocuments_Start(s)
    \/ AddDocuments_Batch(s)
    \/ AddDocuments_Save(s)
    \/ UpdateRetriever(s)
    \/ Clear_Save(s)

\* One session that asks questions, uploads a file and clears the store
NextChat == \E s \in {1} : ChatCall(s, TRUE) \/ ChatStep(s)

SpecChat == Init /\ [][NextChat]_vars

ConcCall(s) ==
    \/ NewChain(s)
    \/ \E content \in Contents : UploadSave(s, FALSE, PathA, content)

ConcStep(s) ==
    \/ ProcessFile_Check(s)
    \/ ProcessFile_Load(s)
    \/ ProcessFile_Record(s)
    \/ AddDocuments_Start(s)
    \/ AddDocuments_Batch(s)
    \/ AddDocuments_Save(s)
    \/ UpdateRetriever(s)

\* Two browser sessions of one server process: each runs upload_document in
\* its own script thread, on the one loader, the one ledger file and the one
\* store of the process, and nothing orders their steps
NextConc == \E s \in Sessions : ConcCall(s) \/ ConcStep(s)

SpecConc == Init /\ [][NextConc]_vars

\* chunk lists given without ids: one chunk, two chunks of one source, two
\* chunks of two sources
GenDocSeqs == {<<DocA>>, <<DocA, DocA>>, <<DocA, DocAB>>}

GenCall(s, serial) ==
    \/ \E docs \in GenDocSeqs, bs \in {1, DefaultBatchSize} :
          Insert(s, serial, docs, TRUE, <<>>, bs)
    \/ Clear_Replace(s, serial)

GenStep(s) ==
    \/ AddDocuments_Batch(s)
    \/ AddDocuments_Save(s)
    \/ Clear_Save(s)

\* The store filled by inserts that leave the ids to add_documents
NextGen ==
    \/ \E s \in {1} : GenCall(s, TRUE) \/ GenStep(s)
    \/ Restart

SpecGen == Init /\ [][NextGen]_vars

\* what a caller of the loader puts under each name
Placed(name) ==
    IF name = PathA THEN Contents
    ELSE IF name = PathAB THEN {Garbled, Text(<<"x">>)}
    ELSE {Text(<<"x">>)}

LoaderCall(s, serial) ==
    \/ \E name \in FileNames : \E content \in Placed(name) :
          SaveUploadedFile(s, serial, name, content)
    \/ \E path \in FileNames : LoadDocumentCall(s, serial, path)
    \/ \E path \in FileNames, skip \in BOOLEAN :
          ProcessFile(s, serial, path, skip)
    \/ \E skip \in BOOLEAN, listing \in Orderings(Listed) :
          ProcessDirectory(s, serial, skip, listing)

LoaderStep(s) ==
    \/ ProcessFile_Check(s)
    \/ ProcessFile_Load(s)
    \/ ProcessFile_Record(s)
    \/ RecordCrash(s)

\* The loader behind its own interface: the calls of one caller, one after
\* the other, and restarts, also in the middle of a write to the ledger
NextLoader ==
    \/ \E s \in {1} : LoaderCall(s, TRUE) \/ LoaderStep(s)
    \/ Restart

SpecLoader == Init /\ [][NextLoader]_vars

\* Everything that runs next to the ledger file: the loader on two files,
\* the store's insert, delete, delete_by_source and clear, restarts, and a
\* process that ends in the middle of the write of a ledger line
LedgerCall(s, serial) ==
    \/ \E path \in Paths : SaveUploadedFile(s, serial, path, Text(<<"x">>))
    \/ \E path \in Paths : ProcessFile(s, serial, path, TRUE)
    \/ Insert(s, serial, <<DocA>>, TRUE, <<>>, DefaultBatchSize)
    \/ \E id \in MappedIds(vector_store) : Delete(s, serial, <<id>>)
    \/ DeleteBySource(s, serial, <<PathA>>)
    \/ Clear_Replace(s, serial)

LedgerStep(s) ==
    \/ LoaderStep(s)
    \/ AddDocuments_Batch(s)
    \/ AddDocuments_Save(s)
    \/ Delete_Save(s)
    \/ DeleteBySource_Save(s)
    \/ Clear_Save(s)

NextLedger ==
    \/ \E s \in {1} : LedgerCall(s, TRUE) \/ LedgerStep(s)
    \/ Restart

SpecLedger == Init /\ [][NextLedger]_vars

----------------------------------------------------------------------------
(* Properties *)

\* the ids and the documents an object holds, in either of its two parts
AllIds(st) == DocIds(st) \cup MappedIds(st)
Stored(st) == {st.docstore[id] : id \in DocIds(st)}

AllIdle == \A s \in Sessions : Idle(s)

\* session s has finished a call of operation op
Finished(s, op) == Idle(s) /\ frame[s].op = op

\* C1: whenever no call is running, a source path is in the ledger exactly
\* when a save has written chunks of that source to the snapshot; a file
\* without chunks, or one whose insertion failed, is not in the ledger.
C1_LedgerIffPersisted ==
    AllIdle => \A p \in Paths : p \in Range(ledger) <=> p \in persisted

\* C2: within one upload the ledger line is written last: once this call
\* has added a line to the ledger, the chunks it loaded are in the snapshot.
C2_LedgerWrittenLast ==
    \A s \in Sessions :
        (frame[s].op = "upload" /\ ledger # pre.ledger) =>
            /\ frame[s].docs # <<>>
            /\ Range(frame[s].docs) \subseteq Stored(disk.snap)

\* C3, as stated: an insert whose caller-supplied ids differ in number from
\* the chunks ends with the count-mismatch error, and memory, snapshot and
\* ledger are as they were before the call.
C3_CountMismatchRaises ==
    \A s \in Sessions :
        (Finished(s, "insert") /\ ~frame[s].gen
            /\ Len(frame[s].ids) # Len(frame[s].docs)) =>
            frame[s].result = "ValueError" /\ Shared = pre

\* C3, amended: the same for an insert of at least one chunk.
C3_CountMismatchRaisesNonEmpty ==
    \A s \in Sessions :
        (Finished(s, "insert") /\ ~frame[s].gen /\ frame[s].docs # <<>>
            /\ Len(frame[s].ids) # Len(frame[s].docs)) =>
            frame[s].result = "ValueError" /\ Shared = pre

\* C3, its case: a count mismatch was raised against a store holding chunks
C3_Witness ==
    \E s \in Sessions :
        /\ Finished(s, "insert") /\ ~frame[s].gen /\ frame[s].docs # <<>>
        /\ Len(frame[s].ids) # Len(frame[s].docs)
        /\ frame[s].result = "ValueError"
        /\ vector_store.ntotal > 1

\* C4: an insert of no chunks returns False, and memory, snapshot and
\* ledger are as they were before the call.
C4_EmptyInsertIsNoOp ==
    \A s \in Sessions :
        (Finished(s, "insert") /\ frame[s].docs = <<>>) =>
            frame[s].result = "False" /\ Shared = pre

\* C4, its case: an empty insert returned against a store holding chunks
C4_Witness ==
    \E s \in Sessions :
        /\ Finished(s, "insert") /\ frame[s].docs = <<>>
        /\ frame[s].result = "False"
        /\ vector_store.ntotal > 1

\* every stored chunk has an id of the generated form, source then "_"
GeneratedForm(st) ==
    \A id \in DocIds(st) :
        st.docstore[id] = PlaceholderDoc
            \/ StartsWith(id, SourcePrefix(st.docstore[id].source))

\* C5: delete_by_source([p]) that returns True on a store filled by inserts
\* with generated ids leaves exactly the entries whose source is not p.
C5_DeletesExactlyTheSource ==
    \A s \in Sessions :
        (Finished(s, "delete_by_source") /\ Len(frame[s].paths) = 1
            /\ frame[s].result = "True" /\ GeneratedForm(pre.store)) =>
            /\ DocIds(vector_store) =
                 {id \in DocIds(pre.store) :
                     pre.store.docstore[id].source # frame[s].paths[1]}
            /\ \A id \in DocIds(vector_store) :
                 vector_store.docstore[id] = pre.store.docstore[id]

\* C6: a delete that returns False has left memory and snapshot as they
\* were before the call.
C6_FailedDeleteLeavesState ==
    \A s \in Sessions :
        (Finished(s, "delete") /\ frame[s].result = "False") =>
            /\ AllIds(pre.store) \subseteq AllIds(vector_store)
            /\ AllIds(pre.disk.snap) \subseteq AllIds(disk.snap)
            /\ vector_store = pre.store /\ disk = pre.disk

\* C7: an insert with generated ids that raised on some batch has left none
\* of its chunks in the index.
C7_NoPartialCommit ==
    \A s \in Sessions :
        (Finished(s, "insert") /\ frame[s].gen
            /\ frame[s].result = "EngineError") =>
            /\ Range(frame[s].ids) \cap AllIds(vector_store) = {}
            /\ vector_store.ntotal = pre.store.ntotal

\* C8: whenever no call is running, the snapshot is a copy of the object
\* in memory.
C8_SnapshotIsCopy == AllIdle => disk = Snapshot(vector_store)

\* C9: the current object has one id per vector, and the ids of its
\* vectors are the ids of its document store.
C9_IndexMatchesDocstore ==
    /\ vector_store.ntotal = Len(vector_store.i2d)
    /\ MappedIds(vector_store) = DocIds(vector_store)

\* C10: when clear() has returned, memory and snapshot hold the placeholder
\* alone; from then to the next insert they hold nothing that was there
\* before the clear, and a search finds the placeholder or nothing.
C10_ClearLeavesPlaceholder ==
    /\ \A s \in Sessions :
          (Finished(s, "clear") /\ frame[s].result = "None") =>
              /\ vector_store = FromTexts(uuids)
              /\ disk = Snapshot(vector_store)
    /\ cleared.on =>
          /\ (AllIds(vector_store) \cup AllIds(disk.snap)) \cap cleared.ids = {}
          /\ Stored(vector_store) \cup Stored(disk.snap) \subseteq {PlaceholderDoc}
          /\ \A s \in Sessions :
                (Finished(s, "search") /\ frame[s].result = "Found") =>
                    \A r \in frame[s].found :
                        r.doc = PlaceholderDoc /\ r.id \notin cleared.ids

\* C10, its case: chunks were dropped by a clear(), and a later search
\* found something
C10_Witness ==
    /\ cleared.on
    /\ \E id \in cleared.ids : StartsWith(id, SourcePrefix(PathA))
    /\ \E s \in Sessions :
          /\ Finished(s, "search") /\ frame[s].result = "Found"
          /\ frame[s].found # {}

\* the process has started and no call has begun since
Restarted == \A s \in Sessions : Idle(s) /\ frame[s] = EmptyFrame

\* the object holds the placeholder and nothing else
PlaceholderOnly(st) ==
    /\ st.ntotal = 1 /\ Len(st.i2d) = 1
    /\ DocIds(st) = MappedIds(st)
    /\ Stored(st) = {PlaceholderDoc}

\* C11: a start loads the snapshot when the directory holds a readable one
\* and leaves it as it is; otherwise (the directory is empty, or the load
\* fails) the start does not fail: the store is a fresh object with the
\* placeholder alone, and that object is saved before the start is over.
C11_OpenLoadsOrCreates ==
    [][Restart =>
         IF disk.kind = "ok"
         THEN vector_store' = disk.snap /\ disk' = disk
         ELSE /\ PlaceholderOnly(vector_store')
              /\ AllIds(vector_store') \cap AllIds(vector_store) = {}
              /\ disk' = Snapshot(vector_store')]_vars

\* C11, its case: the process started on a damaged snapshot of an object
\* that held chunks, and runs on a fresh, saved placeholder
C11_Witness ==
    /\ Restarted
    /\ pre.disk = Damaged /\ pre.store.ntotal > 1
    /\ PlaceholderOnly(vector_store)
    /\ disk = Snapshot(vector_store)

\* C12: when an insert has returned True and the snapshot directory is as
\* the insert left it, a restart brings back the object the process had:
\* the same ids, vectors and documents.
C12_RestartRoundTrip ==
    [][((\E s \in Sessions :
            Finished(s, "insert") /\ frame[s].result = "True")
          /\ disk.kind = "ok" /\ Restart) =>
         vector_store' = vector_store]_vars

\* C12, its case: the process started on the snapshot of an insert and
\* holds the chunks under the ids the insert gave them
C12_Witness ==
    /\ Restarted
    /\ pre.disk = Snapshot(pre.store)
    /\ \E id \in DocIds(pre.store) : pre.store.docstore[id] = DocAB
    /\ vector_store = pre.store

\* C13: _process_file(path, skip_processed=True) on a path that is a line of
\* the ledger returns at its first step with an empty list: nothing is
\* raised, the file is not opened, and the files, the ledger, the index and
\* its snapshot are as they were.
C13_SkipIsPure ==
    [][\A s \in Sessions :
          (/\ ProcessFile_Check(s)
           /\ frame[s].op = "process_file"
           /\ frame[s].skip
           /\ frame[s].path \in Range(ledger))
          => /\ pc'[s] = "idle"
             /\ frame'[s].result = "Chunks"
             /\ frame'[s].docs = <<>>
             /\ ~frame'[s].read
             /\ ledger' = ledger /\ torn' = torn /\ files' = files
             /\ stores' = stores /\ disk' = disk]_vars

\* a skipped file that would have given chunks had it been read
C13_Witness ==
    \E s \in Sessions :
        /\ Finished(s, "process_file")
        /\ frame[s].skip
        /\ frame[s].path \in Range(pre.ledger)
        /\ LoadDocument(frame[s].path).chunks # <<>>
        /\ frame[s].result = "Chunks"
        /\ frame[s].docs = <<>>
        /\ ~frame[s].read
        /\ ledger = pre.ledger

\* what the ledger file held, read line by line, when the call began
ProcessedBefore(doc_id) ==
    doc_id \in Range(pre.ledger)
               \cup (IF pre.torn = <<>> THEN {} ELSE {pre.torn})

\* C14: for a file that loads into at least one chunk and whose path is not
\* in the ledger, _process_file(path, skip_processed=True) returns chunks,
\* and when it has returned the path is in the ledger, so that the same call
\* made again is the skipped call of C13 and returns an empty list.
C14_SecondCallIsEmpty ==
    \A s \in Sessions :
        (/\ Finished(s, "process_file")
         /\ frame[s].skip
         /\ LoadDocument(frame[s].path).chunks # <<>>
         /\ ~ProcessedBefore(frame[s].path))
        => /\ frame[s].docs # <<>>
           /\ IsDocumentProcessed(frame[s].path)

RECURSIVE Gathered(_)
\* the chunks of the files of a listing, in its order; a file that does not
\* load gives none
Gathered(listing) ==
    IF listing = <<>> THEN <<>>
    ELSE LoadDocument(Head(listing)).chunks \o Gathered(Tail(listing))

\* the files of a listing that load
Loadable(listing) ==
    SelectSeq(listing, LAMBDA p : LoadDocument(p).result = "ok")

\* the lines that recording the paths of seq adds to a ledger file that
\* ends in the text t
Lines(t, seq) ==
    IF seq = <<>> THEN <<>> ELSE <<t \o Head(seq)>> \o Tail(seq)

\* C15: _process_directory(directory, skip_processed=False) does not raise
\* when a file fails to load; what it returns is the chunks of every listed
\* file that loads, and the lines it adds to the ledger are the paths of
\* those files only: a failing file gives no chunks, is not recorded and
\* does not keep the files around it from being processed.
C15_FailureDoesNotAbortBatch ==
    \A s \in Sessions :
        (Finished(s, "process_directory") /\ ~frame[s].skip)
        => /\ frame[s].result = "Chunks"
           /\ \E listing \in Orderings(Listed) :
                 /\ frame[s].all = Gathered(listing)
                 /\ ledger = pre.ledger
                               \o Lines(pre.torn, Loadable(listing))

\* a directory with a file that fails to load, walked before a file whose
\* chunks are returned and whose path is recorded
C15_Witness ==
    \E s \in Sessions :
        /\ Finished(s, "process_directory") /\ ~frame[s].skip
        /\ \E p \in Listed : files[p] = Garbled
        /\ files[frame[s].path].kind = "text"
        /\ frame[s].all = LoadedChunks(frame[s].path, files[frame[s].path])
        /\ frame[s].all # <<>>
        /\ ledger = Append(pre.ledger, frame[s].path)

\* C16: a call of load_document or of _process_file on a path whose suffix
\* is not a key of SUPPORTED_LOADERS ends with the ValueError raised to its
\* caller, the file not opened and the ledger as it was.
C16_UnsupportedSurfaces ==
    \A s \in Sessions :
        (/\ Idle(s)
         /\ frame[s].op \in {"load_document", "process_file"}
         /\ Suffix(frame[s].path) \notin SUPPORTED_LOADERS)
        => /\ frame[s].result = "ValueError"
           /\ ~frame[s].read
           /\ ledger = pre.ledger

\* no id stands at two positions of a sequence of ids
Distinct(ids) ==
    \A i, j \in DOMAIN ids : i # j => ids[i] # ids[j]

\* C17: in a store filled only by add_documents calls without ids, no id is
\* held twice, every chunk's id is its source, "_" and a uuid that has been
\* drawn, no uuid is part of two ids, and the ids a call generates are
\* distinct from each other and from every id the store held before, also
\* when chunks of one source are inserted again.
C17_GeneratedIdsDistinct ==
    /\ Distinct(vector_store.i2d)
    /\ \A id \in DocIds(vector_store) :
          \/ vector_store.docstore[id] = PlaceholderDoc
          \/ \E n \in 1..uuids :
                id = ChunkId(vector_store.docstore[id].source, n)
    /\ \A id1, id2 \in AllIds(vector_store) :
          id1 # id2 => id1[Len(id1)] # id2[Len(id2)]
    /\ \A s \in Sessions :
          (frame[s].op = "insert" /\ frame[s].result \in {"pending", "True"})
          => /\ Distinct(frame[s].ids)
             /\ Len(frame[s].ids) = Len(frame[s].docs)
             /\ Range(frame[s].ids) \cap AllIds(pre.store) = {}

\* a second insert of the same source has returned True: the store holds
\* two chunks of that source under two ids
C17_Witness ==
    \E s \in Sessions :
        /\ Finished(s, "insert") /\ frame[s].result = "True"
        /\ frame[s].docs = <<DocA>>
        /\ DocA \in Stored(pre.store)
        /\ Cardinality({id \in DocIds(vector_store) :
                           vector_store.docstore[id] = DocA}) = 2
        /\ Len(vector_store.i2d) = 3

\* C18: no step of the loader, of the store (insert, delete,
\* delete_by_source, clear) or of a restart removes or alters a line of the
\* ledger: the lines before the step are the first lines after it; and a
\* record that is interrupted leaves every complete line as it was, what it
\* wrote standing behind the last line break.
C18_LedgerAppendOnly ==
    [][/\ Len(ledger) <= Len(ledger')
       /\ SubSeq(ledger', 1, Len(ledger)) = ledger
       /\ (\E s \in Sessions : RecordCrash(s))
            => ledger' = ledger /\ StartsWith(torn', torn) /\ torn' # torn]_vars

\* a line recorded before an interrupted record of a second file is still
\* the first line after the restart, the record of the second file and a
\* delete_by_source that removed the chunks of the first
C18_Witness ==
    \E s \in Sessions :
        /\ Finished(s, "delete_by_source") /\ frame[s].result = "True"
        /\ frame[s].paths = <<PathA>>
        /\ ledger = <<PathA, <<"a">> \o PathAB>>

\* the ids under which the current object holds chunks of a source
IdsOfSource(p) ==
    {id \in DocIds(vector_store) : vector_store.docstore[id].source = p}

\* C19: with every upload going through _process_file(path,
\* skip_processed=True), the index never holds the chunks of one upload name
\* more than once, however the uploads of two sessions interleave: a file of
\* at most one chunk has at most one id in the index.
C19_AtMostOnceIngestion ==
    \A p \in UploadNames : Cardinality(IdsOfSource(p)) <= 1

\* the sessions that are inside FAISSVectorStore.add_documents, between the
\* first change of the object in memory and the return of save_local
Mutating == {s \in Sessions : pc[s] = "batch"}

\* C20: the callers serialize the mutating calls on the shared store: at no
\* time are two sessions inside add_documents, so no save_local writes an
\* object that another call is in the middle of changing.
C20_MutationsSerialized == Cardinality(Mutating) <= 1

\* C21: an add_documents call without ids that returns True has only added:
\* every entry the object held before the call is held under the same id
\* with the same text and metadata, the ids are the old ones and the ids of
\* the call, each inserted document stands under its id, and ntotal and the
\* position map have grown by the documents of the call, whether they went
\* in as one batch or as several.
C21_InsertIsAdditive ==
    \A s \in Sessions :
        (Finished(s, "insert") /\ frame[s].result = "True")
        => /\ \A id \in DocIds(pre.store) :
                 /\ id \in DocIds(vector_store)
                 /\ vector_store.docstore[id] = pre.store.docstore[id]
           /\ DocIds(vector_store) = DocIds(pre.store) \cup Range(frame[s].ids)
           /\ \A k \in DOMAIN frame[s].ids :
                 vector_store.docstore[frame[s].ids[k]] = frame[s].docs[k]
           /\ vector_store.i2d = pre.store.i2d \o frame[s].ids
           /\ vector_store.ntotal = pre.store.ntotal + Len(frame[s].docs)

\* two documents inserted as two batches of one
C21_Witness ==
    \E s \in Sessions :
        /\ Finished(s, "insert") /\ frame[s].result = "True"
        /\ frame[s].bs = 1 /\ frame[s].i = 2
        /\ frame[s].docs = <<DocA, DocAB>>
        /\ PlaceholderDoc \in Stored(vector_store)
        /\ vector_store.ntotal = 3

\* C22 as stated: the splitter makes exactly one chunk, with the page's
\* metadata, of a page that is shorter than chunk_size and not empty, and
\* no chunk of an empty page.
C22_ShortPageIsOneChunk ==
    \A s \in Sessions :
        Finished(s, "split_documents")
        => LET doc == frame[s].docs[1]
           IN  /\ frame[s].result = "Chunks"
               /\ (doc.text # <<>> /\ Len(doc.text) < ChunkSize)
                    => /\ Len(frame[s].all) = 1
                       /\ frame[s].all[1].source = doc.source
               /\ doc.text = <<>> => frame[s].all = <<>>

\* C22, amended: the splitter makes exactly one chunk, the stripped text
\* with the page's metadata, of a page that is shorter than chunk_size and
\* holds more than whitespace, and no chunk of a page that is empty or holds
\* only whitespace; it never raises.
C22_ShortNonBlankPageIsOneChunk ==
    \A s \in Sessions :
        Finished(s, "split_documents")
        => LET doc == frame[s].docs[1]
           IN  /\ frame[s].result = "Chunks"
               /\ (Strip(doc.text) # <<>> /\ Len(doc.text) < ChunkSize)
                    => frame[s].all = <<Doc(doc.source, Strip(doc.text))>>
               /\ Strip(doc.text) = <<>> => frame[s].all = <<>>

\* a short page with whitespace around its text has given one chunk
C22_Witness ==
    \E s \in Sessions :
        /\ Finished(s, "split_documents")
        /\ frame[s].docs = <<Doc(PathA, <<" ", "x">>)>>
        /\ frame[s].all = <<Doc(PathA, <<"x">>)>>

\* delete(ids) of session s has changed the object in memory as asked and
\* then failed to write it: memory changed, disk stale
SavedLate(s) ==
    /\ frame[s].ids # <<>>
    /\ ~DeleteOutcome(pre.store, frame[s].ids).raised
    /\ vector_store = DeleteOutcome(pre.store, frame[s].ids).st
    /\ vector_store # pre.store
    /\ disk = pre.disk

\* C23: delete(ids) reports a failed save that follows a delete done in
\* memory otherwise than it reports a delete that failed: False, which is
\* what a failed or refused delete returns, is never the result of a call
\* that changed the object and left the snapshot stale.
C23_SaveFailureIsTold ==
    \A s \in Sessions :
        (Finished(s, "delete") /\ frame[s].result = "False") => ~SavedLate(s)

\* the last n elements of a sequence, all of it when it is shorter
LastOf(seq, n) ==
    IF Len(seq) > n THEN SubSeq(seq, Len(seq) - n + 1, Len(seq)) ELSE seq

\* C24: after every call(question) that returns, and in every other state,
\* the history of a session holds at most 2 * MAX_HISTORY_LENGTH messages,
\* and they are the last messages that were appended, in the order in which
\* they were appended.
C24_HistoryKeepsTheMostRecent ==
    \A s \in Sessions :
        /\ Len(chains[s].history) <= 2 * MaxHistoryLength
        /\ chains[s].history = LastOf(chains[s].said, 2 * MaxHistoryLength)

\* a call has returned after which the opening messages are gone from the
\* history and the last two turns are what it holds
C24_Witness ==
    \E s \in Sessions :
        /\ Finished(s, "call") /\ frame[s].result = "Answer"
        /\ Len(chains[s].said) = 6
        /\ Len(chains[s].history) = 2 * MaxHistoryLength
        /\ chains[s].history[1] = chains[s].said[3]
        /\ chains[s].history[1] # chains[s].said[1]

\* C25: what the retrievers of a chain find during a call comes from the
\* store's current index: once clear() has returned, and until something is
\* inserted again, no call retrieves a chunk under an id that the index held
\* before the clear.
C25_RetrieverFollowsClear ==
    \A s \in Sessions :
        (Finished(s, "call") /\ frame[s].result = "Answer" /\ cleared.on)
        => \A x \in frame[s].fresh :
              x.doc = PlaceholderDoc \/ x.id \notin cleared.ids

\* C26: the sources a call returns are documents that were retrieved during
\* that call, by the retrieval tool or by the chain's own retriever.
C26_SourcesAreOfThisCall ==
    \A s \in Sessions :
        (Finished(s, "call") /\ frame[s].result = "Answer")
        => frame[s].found \subseteq frame[s].fresh

\* the three parts of an object agree: a vector, a position and a docstore
\* entry for every id
Consistent(st) ==
    /\ st.ntotal = Len(st.i2d)
    /\ DocIds(st) = MappedIds(st)
    /\ Distinct(st.i2d)

\* C27: delete_by_source hands every matching id to the engine's delete at
\* most once, whatever the list of source paths, and a call on a consistent
\* object leaves a consistent object.
C27_EachIdDeletedOnce ==
    \A s \in Sessions :
        frame[s].op = "delete_by_source"
        => /\ Distinct(frame[s].ids)
           /\ (Idle(s) /\ Consistent(pre.store)) => Consistent(vector_store)

\* C28: when no call is running, the chunks the index holds of an upload
\* name that is recorded in the ledger and was saved with the snapshot are
\* the chunks of the file now stored under that name.
C28_IndexedChunksAreOfStoredFile ==
    AllIdle =>
        \A p \in UploadNames :
            (p \in Range(ledger) /\ p \in persisted /\ IdsOfSource(p) # {})
            => {vector_store.docstore[id] : id \in IdsOfSource(p)}
                  = Range(LoadedChunks(p, files[p]))

====
